---- MODULE Spec2Model ----
(***************************************************************************)
(* Model of antispam/libs/hikari.py (class Hikari): the punishment         *)
(* executor punish_member with send_guild_log, the eligibility filter      *)
(* check_message_can_be_propagated, and the cleanup sweep                  *)
(* delete_member_messages.  Every remote call (an await on the chat        *)
(* client) is one step whose outcome is chosen by the environment: "ok" or *)
(* one of the client's failure classes.                                    *)
(***************************************************************************)
EXTENDS Integers, Sequences, FiniteSets, TLC

\* ------------------------------------------------------------------ bounds
\* the member's kick_count at the call is drawn from 1..MaxKickCount
MaxKickCount == 1
\* the longest list of flagged messages a sweep goes through
MaxMsgs == 3
\* Renders of one configured template, and words of a template text.
MaxRenders == 2
MaxWords == 2
\* Pieces a message content is put together from.
MaxChunks == 3

\* --------------------------------------------------------------- constants
None == "None"

\* The failure classes of a remote call (hikari.py imports, lines 16-20).
Errors ==
  {"UnauthorizedError", "ForbiddenError", "NotFoundError",
   "RateLimitTooLongError", "InternalServerError"}

Outcomes == {"ok"} \cup Errors

\* The channel the triggering message came from, and the configured log channel.
MessageChannel == "c_msg"
LogChannel == "c_log"

\* The roles the bot may hold and the permissions of each (role.permissions).
Roles == {"kicker", "banner"}

role_permissions(role) ==
  CASE role = "kicker" -> {"KICK_MEMBERS"}
    [] role = "banner" -> {"BAN_MEMBERS"}
    [] OTHER -> {}

VARIABLES
  \* ---- punish_member
  pc,                   \* position of the attempt in punish_member
  is_kick,              \* parameter is_kick
  bot_roles,            \* roles fetched for guild.get_my_member()
  guild_cached,         \* bot.cache.get_guild(...) is not None
  owner_id,             \* guild.owner_id
  log_channel_id,       \* internal_guild.log_channel_id (None when unset)
  user_delete_after,    \* parameter user_delete_after is truthy
  channel_delete_after, \* parameter channel_delete_after is truthy
  member,               \* the Member record passed in (mutated in place)
  pre,                  \* the Member record as it was at the call
  auth,                 \* what the authorization chain decided, "pending" before it
  cache,                \* the record held by handler.cache
  cache_writes,         \* set_member calls of this attempt
  result,               \* "running", "returned" or the exception raised
  raised_at,            \* the step that raised, None otherwise
  sent_message,         \* local sent_message: None or the message handle
  dm_exists,            \* the private notification exists on the platform
  punished,             \* the kick/ban the platform carried out: "no", "kick", "ban"
  guild_log,            \* the send_guild_log calls of this attempt, in order
  trace,                \* the remote operations issued by this attempt, in order
  notify_out,           \* outcome of author.send
  delete_out,           \* outcome of the delayed delete of the notification
  act_out,              \* outcome of guild.kick / guild.ban
  \* ---- check_message_can_be_propagated
  cpc,                  \* position in check_message_can_be_propagated
  msg,                  \* the inbound message and the state it is checked against
  cresult,              \* "running", "PropagateData", a rejection or the exception raised
  roles_out,            \* outcome of member.fetch_roles() in the role check, None before it
  has_perms,            \* has_perms_to_make_guild of the returned PropagateData
  my_roles,             \* the roles member.fetch_roles() gave _get_perms, None before it
  my_perms,             \* the permissions _get_perms returned, None before it
  \* ---- delete_member_messages
  spc,                  \* position in delete_member_messages
  messages,             \* member.messages
  platform,             \* per flagged message: its state on the platform
  idx,                  \* index of the next flagged message
  channels,             \* the local dict channels (its keys)
  deleted,              \* indexes of the messages deleted by the sweep
  sresult,              \* "running", "returned" or the exception raised
  calls,                \* remote operations issued by the sweep, in order
  missing,              \* channel ids whose fetch_channel was a NotFoundError
  other_failure,        \* a remote call of the sweep failed in another way than a
                        \* message that is gone or a delete refused as forbidden / not found
  \* ---- two concurrent calls of punish_member for one member
  krun,                 \* the two calls have been made
  kaliased,             \* the cache hands out the object it holds (TRUE) or a copy of it
  kis_kick,             \* per call: is_kick
  kroles,               \* the roles of the bot
  kowner,               \* guild.owner_id
  kpc,                  \* per call: its position in punish_member
  krec,                 \* per call: the member record it was given, when it is a copy
  kcache,               \* the record the cache holds for the member
  kbase,                \* the record the cache held before the two calls
  kreverted,            \* per call: it has reverted (kick_count -= 1)
  kwritten,             \* per call: it has called set_member
  \* ---- transform_message / dict_to_embed
  configured,           \* the template as configuration loading supplied it
  template,             \* the configured template object the renders are given
  renders,              \* number of renders made
  ctx,                  \* the message, counters and entry point of the last render
  rendered,             \* what the last render returned
  \* ---- create_message
  tpc,                  \* position in create_message
  content,              \* message.content
  embeds,               \* message.embeds, each embed as its embed_to_string text
  delete_zero_width_chars,  \* the option of that name
  created               \* what create_message did: raised LogicError, or the content
                        \* of the Message it returned

pvars ==
  <<pc, is_kick, bot_roles, guild_cached, owner_id, log_channel_id,
    user_delete_after, channel_delete_after, member, pre, auth, cache,
    cache_writes, result, raised_at, sent_message, dm_exists, punished, guild_log, trace,
    notify_out, delete_out, act_out>>

cvars == <<cpc, msg, cresult, roles_out, has_perms, my_roles, my_perms>>

svars ==
  <<spc, messages, platform, idx, channels, deleted, sresult, calls, other_failure,
    missing>>

kvars ==
  <<krun, kaliased, kis_kick, kroles, kowner, kpc, krec, kcache, kbase, kreverted,
    kwritten>>

rvars == <<configured, template, renders, ctx, rendered>>

tvars == <<tpc, content, embeds, delete_zero_width_chars, created>>

vars == <<pvars, cvars, svars, kvars, rvars, tvars>>

\* The id of the punished member (member.id); the guild owner is this member or another.
MemberId == "u_member"
OtherId == "u_other"

\* The bot's own user id (bot.get_me().id) and the guild of the message.
BotId == "u_bot"
GuildId == "g1"

\* The channel of the message has this display name; the member holds one
\* role, with this id and this display name.
ChannelName == "general"
MemberRoleIds == {"r_mod"}
MemberRoleNames == {"mod"}

\* ------------------------------------------------------------ _get_perms
\* The union of the permissions of the given roles.
get_perms(roles) == UNION {role_permissions(r) : r \in roles}

\* ------------------------------------------------- punish_member: helpers
\* Mutant of authorize: the ownership check is left out.
authorize_without_owner_check(perms, kick, owner, member_id) ==
  IF "KICK_MEMBERS" \notin perms /\ kick THEN "need_kick"
  ELSE IF "BAN_MEMBERS" \notin perms /\ ~kick THEN "need_ban"
  ELSE "ok"

\* The authorization chain of punish_member: which denial, or "ok".
authorize(perms, kick, owner, member_id) ==
  IF "KICK_MEMBERS" \notin perms /\ kick THEN "need_kick"
  ELSE IF "BAN_MEMBERS" \notin perms /\ ~kick THEN "need_ban"
  ELSE IF owner = member_id THEN "owner"
  ELSE "ok"

\* Mutant of revert: the decrement is applied twice.
revert_decrements_twice(m) == [m EXCEPT !.in_guild = TRUE, !.kick_count = @ - 2]

\* member._in_guild = True; member.kick_count -= 1
revert(m) == [m EXCEPT !.in_guild = TRUE, !.kick_count = @ - 1]

\* The failures an except clause of punish_member catches around author.send
\* and around guild.kick / guild.ban.
PunishCaught == {"InternalServerError"}

\* Mutant of LogCaught: NotFoundError is missing from the except clause.
LogCaught_without_NotFound ==
  {"UnauthorizedError", "ForbiddenError", "RateLimitTooLongError",
   "InternalServerError"}

\* The failures the except clause of send_guild_log catches.
LogCaught ==
  {"UnauthorizedError", "ForbiddenError", "NotFoundError",
   "RateLimitTooLongError", "InternalServerError"}

\* Mutant of log_target: the configured log channel is not looked at.
log_target_always_original(log_channel, original_channel) == original_channel

\* The channel send_guild_log sends to.
log_target(log_channel, original_channel) ==
  IF log_channel = None THEN original_channel ELSE log_channel

\* send_guild_log with the outcomes fo, so, do of its fetch_channel, send and
\* delayed delete: the call as recorded, and what it raises to its caller.
send_guild_log(log_channel, message, delete_after_time, original_channel, fo, so, do) ==
  LET fetched == log_channel = None \/ fo = "ok"
      sent == fetched /\ so = "ok"
      err == IF ~fetched THEN fo
             ELSE IF ~sent THEN so
             ELSE IF delete_after_time THEN do
             ELSE "ok"
  IN  [call |-> [message |-> message,
                 channel |-> log_target(log_channel, original_channel),
                 sent |-> sent,
                 error |-> err],
       raised |-> IF err \in LogCaught THEN "ok" ELSE err]

\* The outcomes the environment may choose for one send_guild_log call: a
\* remote call that is not made has no outcome of its own.
LogOutcomes(log_channel, delete_after_time) ==
  {o \in [fo : Outcomes, so : Outcomes, do : Outcomes] :
     /\ (log_channel = None => o.fo = "ok")
     /\ (o.fo # "ok" => o.so = "ok")
     /\ ((o.so # "ok" \/ o.fo # "ok" \/ ~delete_after_time) => o.do = "ok")}

\* ------------------------------------------------------- initial states
MemberRecords ==
  [kick_count : 1..MaxKickCount, warn_count : {1}, in_guild : BOOLEAN]

InitPunish ==
  /\ pc = "idle"
  /\ is_kick = TRUE
  /\ bot_roles = {}
  /\ guild_cached = TRUE
  /\ owner_id = OtherId
  /\ log_channel_id = None
  /\ user_delete_after = FALSE
  /\ channel_delete_after = FALSE
  /\ member \in {m \in MemberRecords : m.in_guild}
  /\ pre = member
  /\ auth = "pending"
  /\ cache = member
  /\ cache_writes = 0
  /\ result = "running"
  /\ raised_at = None
  /\ sent_message = None
  /\ dm_exists = FALSE
  /\ punished = "no"
  /\ guild_log = << >>
  /\ trace = << >>
  /\ notify_out = None
  /\ delete_out = None
  /\ act_out = None

InitProp ==
  /\ cpc = "idle"
  /\ msg = [is_message |-> TRUE, guild_id |-> GuildId, author_id |-> MemberId,
            is_bot |-> FALSE, guild_cached |-> TRUE, member_cached |-> TRUE,
            ignore_bots |-> FALSE, ignored_members |-> {}, ignored_channels |-> {},
            ignored_roles |-> {}, ignored_guilds |-> {}]
  /\ cresult = "running"
  /\ roles_out = None
  /\ has_perms = FALSE
  /\ my_roles = None
  /\ my_perms = None

InitSweep ==
  /\ spc = "idle"
  /\ messages = << >>
  /\ platform = << >>
  /\ idx = 1
  /\ channels = {}
  /\ deleted = {}
  /\ sresult = "running"
  /\ calls = << >>
  /\ other_failure = FALSE
  /\ missing = {}

\* The two calls of punish_member for one member.
Attempts == {1, 2}

InitConc ==
  /\ krun = FALSE
  /\ kaliased = FALSE
  /\ kis_kick = [i \in Attempts |-> TRUE]
  /\ kroles = {}
  /\ kowner = OtherId
  /\ kpc = [i \in Attempts |-> "idle"]
  /\ krec = [i \in Attempts |-> None]
  /\ kcache = member
  /\ kbase = member
  /\ kreverted = [i \in Attempts |-> FALSE]
  /\ kwritten = [i \in Attempts |-> FALSE]

InitRender ==
  /\ configured = [kind |-> "none"]
  /\ template = [kind |-> "none"]
  /\ renders = 0
  /\ ctx = [username |-> None, warn_count |-> None, kick_count |-> None, via |-> None]
  /\ rendered = [kind |-> "none"]

InitText ==
  /\ tpc = "idle"
  /\ content = << >>
  /\ embeds = << >>
  /\ delete_zero_width_chars = FALSE
  /\ created = [raised |-> FALSE, content |-> << >>]

Init == InitPunish /\ InitProp /\ InitSweep /\ InitConc /\ InitRender /\ InitText

\* ------------------------------------------------------- punish_member
\* An exception leaves punish_member from step `at`.
Raise(e, at) ==
  /\ result' = e
  /\ raised_at' = at
  /\ pc' = "done"

\* The call: the caller passes the message, the member record, the guild
\* and the options.
Call ==
  /\ pc = "idle"
  /\ \E k \in BOOLEAN, r \in SUBSET Roles, g \in BOOLEAN,
        o \in {MemberId, OtherId}, l \in {None, LogChannel},
        u \in BOOLEAN, c \in BOOLEAN, m \in MemberRecords :
       /\ is_kick' = k
       /\ bot_roles' = r
       /\ guild_cached' = g
       /\ owner_id' = o
       /\ log_channel_id' = l
       /\ user_delete_after' = u
       /\ channel_delete_after' = c
       /\ member' = m
       /\ pre' = m
  /\ pc' = "fetch_channel"
  /\ auth' = "pending"
  /\ cache_writes' = 0
  /\ result' = "running"
  /\ raised_at' = None
  /\ sent_message' = None
  /\ dm_exists' = FALSE
  /\ punished' = "no"
  /\ guild_log' = << >>
  /\ trace' = << >>
  /\ notify_out' = None
  /\ delete_out' = None
  /\ act_out' = None
  /\ UNCHANGED <<cache, cvars, svars, kvars, rvars, tvars>>

\* channel = await self.handler.bot.rest.fetch_channel(original_message.channel_id)
FetchChannel ==
  /\ pc = "fetch_channel"
  /\ trace' = Append(trace, "fetch_channel")
  /\ \E out \in Outcomes :
       IF out = "ok"
       THEN pc' = "authorizing" /\ UNCHANGED <<result, raised_at>>
       ELSE Raise(out, "fetch_channel")
  /\ UNCHANGED <<is_kick, bot_roles, guild_cached, owner_id,
                 log_channel_id, user_delete_after, channel_delete_after, member,
                 pre, auth, cache, cache_writes, sent_message, dm_exists, punished,
                 guild_log, notify_out, delete_out, act_out, cvars, svars, kvars, rvars, tvars>>

\* perms = await self._get_perms(guild.get_my_member()) and the three denials.
Authorizing ==
  /\ pc = "authorizing"
  /\ IF ~guild_cached
     THEN \* guild is None: guild.get_my_member() is an AttributeError
          /\ Raise("AttributeError", "authorizing")
          /\ UNCHANGED <<member, auth, trace>>
     ELSE /\ trace' = Append(trace, "fetch_roles")
          /\ \E out \in Outcomes :
               IF out # "ok"
               THEN Raise(out, "authorizing") /\ UNCHANGED <<member, auth>>
               ELSE /\ auth' = authorize(get_perms(bot_roles), is_kick, owner_id, MemberId)
                    /\ IF auth' # "ok"
                       THEN /\ member' = revert(member)
                            /\ Raise("MissingGuildPermissions", "authorizing")
                       ELSE /\ pc' = "notify_send"
                            /\ UNCHANGED <<member, result, raised_at>>
  /\ UNCHANGED <<is_kick, bot_roles, guild_cached, owner_id,
                 log_channel_id, user_delete_after, channel_delete_after,
                 pre, cache, cache_writes, sent_message, dm_exists, punished,
                 guild_log, notify_out, delete_out, act_out, cvars, svars, kvars, rvars, tvars>>

\* Mutant of NotifySend: the notification step is skipped.
NotifySend_skipped ==
  /\ pc = "notify_send"
  /\ pc' = "act"
  /\ UNCHANGED <<is_kick, bot_roles, guild_cached, owner_id, log_channel_id,
                 user_delete_after, channel_delete_after, member, pre, auth, cache,
                 cache_writes, result, raised_at, sent_message, dm_exists, punished,
                 guild_log, trace, notify_out, delete_out, act_out, cvars, svars, kvars, rvars, tvars>>

\* sent_message = await author.send(...)
NotifySend ==
  /\ pc = "notify_send"
  /\ trace' = Append(trace, "dm_send")
  /\ \E out \in Outcomes :
       /\ notify_out' = out
       /\ IF out = "ok"
          THEN /\ sent_message' = "dm"
               /\ dm_exists' = TRUE
               /\ pc' = IF user_delete_after THEN "notify_delete" ELSE "act"
               /\ UNCHANGED <<result, raised_at>>
          ELSE /\ UNCHANGED <<sent_message, dm_exists>>
               /\ IF out \in PunishCaught
                  THEN pc' = "notify_failed_log" /\ UNCHANGED <<result, raised_at>>
                  ELSE Raise(out, "notify_send")
  /\ UNCHANGED <<is_kick, bot_roles, guild_cached, owner_id,
                 log_channel_id, user_delete_after, channel_delete_after, member,
                 pre, auth, cache, cache_writes, punished, guild_log, delete_out,
                 act_out, cvars, svars, kvars, rvars, tvars>>

\* await asyncio.sleep(user_delete_after); await sent_message.delete()
NotifyDelete ==
  /\ pc = "notify_delete"
  /\ trace' = trace \o <<"sleep", "dm_delete">>
  /\ \E out \in Outcomes :
       /\ delete_out' = out
       /\ IF out = "ok"
          THEN /\ dm_exists' = FALSE
               /\ pc' = "act"
               /\ UNCHANGED <<result, raised_at>>
          ELSE /\ UNCHANGED dm_exists
               /\ IF out \in PunishCaught
                  THEN pc' = "notify_failed_log" /\ UNCHANGED <<result, raised_at>>
                  ELSE Raise(out, "notify_delete")
  /\ UNCHANGED <<is_kick, bot_roles, guild_cached, owner_id,
                 log_channel_id, user_delete_after, channel_delete_after, member,
                 pre, auth, cache, cache_writes, sent_message, punished, guild_log,
                 notify_out, act_out, cvars, svars, kvars, rvars, tvars>>

\* One send_guild_log call of punish_member, made at step `at` with `message`,
\* going on to step `next` when it raises nothing.
LogStep(at, message, next) ==
  /\ pc = at
  /\ \E o \in LogOutcomes(log_channel_id, channel_delete_after) :
       LET r == send_guild_log(log_channel_id, message, channel_delete_after,
                               MessageChannel, o.fo, o.so, o.do)
       IN  /\ guild_log' = Append(guild_log, r.call)
           /\ trace' =
                IF r.call.sent /\ channel_delete_after
                THEN trace \o <<"log", "sleep", "log_delete">>
                ELSE Append(trace, "log")
           /\ IF r.raised = "ok"
              THEN pc' = next /\ UNCHANGED <<result, raised_at>>
              ELSE Raise(r.raised, at)
  /\ UNCHANGED <<is_kick, bot_roles, guild_cached, owner_id,
                 log_channel_id, user_delete_after, channel_delete_after, member,
                 pre, auth, cache, cache_writes, sent_message, dm_exists, punished,
                 notify_out, delete_out, act_out, cvars, svars, kvars, rvars, tvars>>

\* except InternalServerError: the delivery-failure notice.
NotifyFailedLog == LogStep("notify_failed_log", "notify_failed", "act")

\* Mutant of Act: a caught failure of the kick/ban call is followed by another try.
Act_retrying ==
  /\ pc = "act"
  /\ trace' = Append(trace, IF is_kick THEN "kick" ELSE "ban")
  /\ \E out \in Outcomes :
       /\ act_out' = out
       /\ IF out = "ok"
          THEN /\ punished' = IF is_kick THEN "kick" ELSE "ban"
               /\ pc' = "success_log"
               /\ UNCHANGED <<member, result, raised_at>>
          ELSE /\ UNCHANGED punished
               /\ IF out \in PunishCaught
                  THEN UNCHANGED <<pc, member, result, raised_at>>
                  ELSE /\ Raise(out, "act")
                       /\ UNCHANGED member
  /\ UNCHANGED <<is_kick, bot_roles, guild_cached, owner_id,
                 log_channel_id, user_delete_after, channel_delete_after,
                 pre, auth, cache, cache_writes, sent_message, dm_exists, guild_log,
                 notify_out, delete_out, cvars, svars, kvars, rvars, tvars>>

\* await guild.kick(...) / await guild.ban(...); on a caught failure the
\* member record is reverted before the failure notice is logged.
Act ==
  /\ pc = "act"
  /\ trace' = Append(trace, IF is_kick THEN "kick" ELSE "ban")
  /\ \E out \in Outcomes :
       /\ act_out' = out
       /\ IF out = "ok"
          THEN /\ punished' = IF is_kick THEN "kick" ELSE "ban"
               /\ pc' = "success_log"
               /\ UNCHANGED <<member, result, raised_at>>
          ELSE /\ UNCHANGED punished
               /\ IF out \in PunishCaught
                  THEN /\ member' = revert(member)
                       /\ pc' = "act_failed_log"
                       /\ UNCHANGED <<result, raised_at>>
                  ELSE /\ Raise(out, "act")
                       /\ UNCHANGED member
  /\ UNCHANGED <<is_kick, bot_roles, guild_cached, owner_id,
                 log_channel_id, user_delete_after, channel_delete_after,
                 pre, auth, cache, cache_writes, sent_message, dm_exists, guild_log,
                 notify_out, delete_out, cvars, svars, kvars, rvars, tvars>>

\* The guild-level failure notice; the failed-kick/ban template follows only
\* when sent_message is not None.
ActFailedLog ==
  LogStep("act_failed_log", "act_failed",
          IF sent_message # None THEN "failed_template_log" ELSE "set_member")

\* transform_message(member_failed_kick_message / member_failed_ban_message)
\* and its send_guild_log.
FailedTemplateLog ==
  LogStep("failed_template_log",
          IF is_kick THEN "member_failed_kick_message" ELSE "member_failed_ban_message",
          "retract")

\* await sent_message.delete(), outside any try: a message that is already
\* gone cannot be deleted.
Retract ==
  /\ pc = "retract"
  /\ trace' = Append(trace, "dm_delete")
  /\ \E out \in Outcomes :
       /\ (~dm_exists => out # "ok")
       /\ IF out = "ok"
          THEN /\ dm_exists' = FALSE
               /\ pc' = "set_member"
               /\ UNCHANGED <<result, raised_at>>
          ELSE /\ UNCHANGED dm_exists
               /\ Raise(out, "retract")
  /\ UNCHANGED <<is_kick, bot_roles, guild_cached, owner_id,
                 log_channel_id, user_delete_after, channel_delete_after, member,
                 pre, auth, cache, cache_writes, sent_message, punished, guild_log,
                 notify_out, delete_out, act_out, cvars, svars, kvars, rvars, tvars>>

\* else: the caller-supplied guild_message.
SuccessLog == LogStep("success_log", "guild_message", "set_member")

\* member._in_guild = True; await self.handler.cache.set_member(member)
SetMember ==
  /\ pc = "set_member"
  /\ member' = [member EXCEPT !.in_guild = TRUE]
  /\ cache' = member'
  /\ cache_writes' = cache_writes + 1
  /\ trace' = Append(trace, "set_member")
  /\ result' = "returned"
  /\ pc' = "done"
  /\ UNCHANGED <<is_kick, bot_roles, guild_cached, owner_id,
                 log_channel_id, user_delete_after, channel_delete_after,
                 pre, auth, raised_at, sent_message, dm_exists, punished, guild_log,
                 notify_out, delete_out, act_out, cvars, svars, kvars, rvars, tvars>>

Next ==
  \/ Call
  \/ FetchChannel
  \/ Authorizing
  \/ NotifySend
  \/ NotifyDelete
  \/ NotifyFailedLog
  \/ Act
  \/ ActFailedLog
  \/ FailedTemplateLog
  \/ Retract
  \/ SuccessLog
  \/ SetMember

Spec == Init /\ [][Next]_vars

\* ======================================================== claims (Spec)
LogMessages == [i \in DOMAIN guild_log |-> guild_log[i].message]

FailedTemplate ==
  IF is_kick THEN "member_failed_kick_message" ELSE "member_failed_ban_message"

\* The denial condition of punish_member, stated on the inputs of the call.
Denied ==
  \/ is_kick /\ "KICK_MEMBERS" \notin get_perms(bot_roles)
  \/ ~is_kick /\ "BAN_MEMBERS" \notin get_perms(bot_roles)
  \/ owner_id = MemberId

\* C1: whenever the authorization of punish_member is denied (no kick
\* capability for a kick, no ban capability for a ban, or the target owns the
\* guild), the attempt ends with MissingGuildPermissions, the member's
\* kick_count is exactly one less than at the call and in_guild is true.
C1_DenialReverts ==
  (auth # "pending" /\ Denied) =>
     /\ pc = "done"
     /\ result = "MissingGuildPermissions"
     /\ member.kick_count = pre.kick_count - 1
     /\ member.in_guild = TRUE
     /\ member.warn_count = pre.warn_count

\* C1 witness: a ban denied for want of the ban capability, on a member that
\* was marked as not in the guild at the call.
C1_Witness ==
  /\ auth = "need_ban"
  /\ ~is_kick
  /\ ~pre.in_guild
  /\ result = "MissingGuildPermissions"
  /\ member.kick_count = pre.kick_count - 1

\* C2 (as claimed): every punishment attempt that ends as a success, as Denied
\* or as a PartialFailure has written the member record through set_member
\* exactly once.
C2_WritesExactlyOnce ==
  (pc = "done" /\ result \in {"returned", "MissingGuildPermissions"}) =>
     cache_writes = 1

\* C3 (as claimed): in an attempt that passed authorization, when the private
\* notification could not be delivered the delivery-failure notice is logged
\* and the kick or ban call is still issued.
C3_ActsDespiteNotifyFailure ==
  (pc = "done" /\ auth = "ok" /\ notify_out \in Errors) =>
     /\ act_out # None
     /\ \E i \in DOMAIN guild_log : guild_log[i].message = "notify_failed"

\* C4 (as claimed): whenever the kick or ban call fails, with any failure
\* class, kick_count is one less than at the call, in_guild is true and the
\* guild-level failure notice is logged.
C4_ActFailureReverts ==
  (pc = "done" /\ act_out \in Errors) =>
     /\ member.kick_count = pre.kick_count - 1
     /\ member.in_guild = TRUE
     /\ \E i \in DOMAIN guild_log : guild_log[i].message = "act_failed"

\* C5 (as claimed): when the private notification was sent and the kick/ban
\* call fails with InternalServerError, the guild log is sent exactly two
\* messages, the action-failure notice and then the failed-kick/ban template,
\* then the notification is deleted, and the member is reverted; when no
\* notification was sent, no template is logged and nothing is retracted.
C5_TwoLogsThenRetract ==
  /\ (pc = "done" /\ result = "returned" /\ act_out = "InternalServerError"
        /\ sent_message # None) =>
       /\ LogMessages = <<"act_failed", FailedTemplate>>
       /\ ~dm_exists
       /\ member.kick_count = pre.kick_count - 1
       /\ member.in_guild = TRUE
  /\ (pc = "done" /\ act_out = "InternalServerError" /\ sent_message = None) =>
       /\ \A i \in DOMAIN guild_log : guild_log[i].message # FailedTemplate
       /\ \A i \in DOMAIN trace : trace[i] # "dm_delete"

LogSteps ==
  {"notify_failed_log", "act_failed_log", "failed_template_log", "success_log"}

\* C8: a failure while dispatching to the guild log is swallowed by
\* send_guild_log: no exception leaves punish_member from a logging step, and
\* an attempt whose only remaining steps after the kick/ban are logging and
\* the cache write returns with the member record written once.
C8_LogFailureSwallowed ==
  /\ raised_at \notin LogSteps
  /\ (pc = "done" /\ punished # "no") =>
       (result = "returned" /\ cache_writes = 1 /\ cache = member)
  /\ (pc = "done" /\ act_out = "InternalServerError" /\ sent_message = None) =>
       (result = "returned" /\ cache_writes = 1 /\ cache = member)

\* C8 witness: the success message could not be dispatched (the channel is
\* gone) and the attempt still returned with the record written.
C8_Witness ==
  /\ pc = "done"
  /\ punished # "no"
  /\ \E i \in DOMAIN guild_log :
       /\ guild_log[i].message = "guild_message"
       /\ guild_log[i].error = "NotFoundError"
       /\ ~guild_log[i].sent
  /\ result = "returned"
  /\ cache_writes = 1

\* C9: every message of an attempt that goes to the guild log goes to the
\* configured log channel when log_channel_id is set and to the channel of the
\* triggering message when it is not, never to another channel.
C9_LogChannel ==
  /\ log_channel_id # None =>
       \A i \in DOMAIN guild_log : guild_log[i].channel = log_channel_id
  /\ log_channel_id = None =>
       \A i \in DOMAIN guild_log : guild_log[i].channel = MessageChannel

\* C9 witness: with a log channel configured, the success message was sent to it.
C9_Witness ==
  /\ log_channel_id = LogChannel
  /\ pc = "done"
  /\ Len(guild_log) = 1
  /\ guild_log[1].sent
  /\ guild_log[1].message = "guild_message"
  /\ guild_log[1].channel = LogChannel

\* C11 (as claimed): a delayed deletion does not block the attempt: the
\* kick or ban call and the cache write are issued without any deletion delay
\* having been waited out before them.
C11_DeletionDelayDoesNotBlock ==
  \A k \in DOMAIN trace :
     trace[k] \in {"kick", "ban", "set_member"} =>
       \A j \in 1..(k - 1) : trace[j] # "sleep"

\* C12 (as claimed): a failure of the delayed deletion of the private
\* notification is ignored: no exception leaves punish_member from it and the
\* attempt goes on as after a successful deletion, straight to the kick or
\* ban, without a delivery-failure notice.
C12_DelayedDeleteFailureIgnored ==
  delete_out \in Errors =>
     /\ raised_at # "notify_delete"
     /\ pc # "notify_failed_log"
     /\ \A i \in DOMAIN guild_log : guild_log[i].message # "notify_failed"

\* C13 (as claimed): on the path where the notification was sent and the
\* kick/ban failed with InternalServerError, the retraction is best-effort:
\* the attempt does not raise and the reverted record is written to the cache.
C13_RetractionBestEffort ==
  (pc = "done" /\ act_out = "InternalServerError" /\ sent_message # None) =>
     /\ result = "returned"
     /\ cache_writes = 1
     /\ cache = member

Denials == {"need_kick", "need_ban", "owner"}

\* C15: in an attempt, whatever record it starts from, kick_count is
\* decremented at most once and by exactly 1, only when the attempt was
\* denied or its kick/ban call failed; an attempt whose kick or ban succeeded
\* leaves kick_count unchanged, and warn_count never changes.
C15_DecrementOnlyOnFailure ==
  /\ member.kick_count \in {pre.kick_count, pre.kick_count - 1}
  /\ member.warn_count = pre.warn_count
  /\ member.kick_count # pre.kick_count => (auth \in Denials \/ act_out \in Errors)
  /\ (auth \in Denials \/ act_out \in PunishCaught) =>
       member.kick_count = pre.kick_count - 1
  /\ punished # "no" => member.kick_count = pre.kick_count

\* C15 witness: an attempt whose ban failed with InternalServerError has
\* returned with kick_count one less than at the call.
C15_Witness ==
  /\ pc = "done"
  /\ result = "returned"
  /\ ~is_kick
  /\ act_out = "InternalServerError"
  /\ member.kick_count = pre.kick_count - 1
  /\ cache = member

\* The positions of operation op in the trace of the attempt.
Positions(op) == {k \in DOMAIN trace : trace[k] = op}

ActPositions == Positions("kick") \cup Positions("ban")

\* C16: within one attempt the authorization check comes before the
\* notification attempt, that before the kick/ban call, the outcome logging
\* after the call and the cache write last; an attempt that ends Denied has
\* sent no notification, issued no kick or ban and logged nothing.
C16_StepOrder ==
  /\ \A k \in Positions("dm_send") :
       auth = "ok" /\ \E j \in Positions("fetch_roles") : j < k
  /\ \A k \in ActPositions : \E j \in Positions("dm_send") : j < k
  /\ act_out = None =>
       \A i \in DOMAIN guild_log : guild_log[i].message = "notify_failed"
  /\ \A k \in Positions("set_member") :
       /\ k = Len(trace)
       /\ \E a \in ActPositions : \E l \in Positions("log") : a < l /\ l < k
  /\ auth \in Denials =>
       /\ trace = <<"fetch_channel", "fetch_roles">>
       /\ guild_log = << >>
       /\ sent_message = None
       /\ punished = "no"
       /\ pc = "done"

\* C16 witness: a kick that went through all the steps.
C16_Witness ==
  /\ pc = "done"
  /\ result = "returned"
  /\ trace = <<"fetch_channel", "fetch_roles", "dm_send", "kick", "log", "set_member">>

\* C17 (as claimed): within one attempt the kick or ban call is issued at
\* most once, the notification is sent at most once, and a deletion of the
\* notification that failed is not issued again.
C17_NoRetry ==
  /\ Cardinality(ActPositions) <= 1
  /\ Cardinality(Positions("dm_send")) <= 1
  /\ delete_out \in Errors => Cardinality(Positions("dm_delete")) <= 1

\* C17 (amended): within one attempt the kick or ban call is issued at most
\* once, the notification is sent at most once, the channel and the roles are
\* fetched at most once, each log message is dispatched at most once and the
\* cache is written at most once; the deletion of the notification is issued
\* at most twice, the second time only as the retraction after a kick/ban
\* that failed with InternalServerError.
C17_NoRetryButRetraction ==
  /\ Cardinality(ActPositions) <= 1
  /\ Cardinality(Positions("dm_send")) <= 1
  /\ Cardinality(Positions("fetch_channel")) <= 1
  /\ Cardinality(Positions("fetch_roles")) <= 1
  /\ Cardinality(Positions("set_member")) <= 1
  /\ cache_writes <= 1
  /\ \A i, j \in DOMAIN guild_log :
       guild_log[i].message = guild_log[j].message => i = j
  /\ Cardinality(Positions("dm_delete")) <= 2
  /\ Cardinality(Positions("dm_delete")) = 2 =>
       (user_delete_after /\ act_out = "InternalServerError")

\* C17 witness: the delayed deletion of the notification failed and the
\* retraction issued the deletion again.
C17_Witness ==
  /\ pc = "done"
  /\ delete_out = "InternalServerError"
  /\ act_out = "InternalServerError"
  /\ Cardinality(Positions("dm_delete")) = 2
  /\ Cardinality(ActPositions) = 1

\* ------------------------------------- check_message_can_be_propagated
Rejections ==
  {"NotAMessage", "NotInGuild", "SelfAuthored", "UnresolvableMember",
   "IgnoredBot", "IgnoredMember", "IgnoredChannel", "IgnoredRole", "IgnoredGuild"}

\* The inbound messages, the cache state and the options a call may meet.
Inbound ==
  [is_message : BOOLEAN,
   guild_id : {None, GuildId},
   author_id : {BotId, MemberId},
   is_bot : BOOLEAN,
   guild_cached : BOOLEAN,
   member_cached : BOOLEAN,
   ignore_bots : BOOLEAN,
   ignored_members : SUBSET {MemberId},
   ignored_channels : SUBSET {MessageChannel, ChannelName},
   ignored_roles : SUBSET (MemberRoleIds \cup MemberRoleNames),
   ignored_guilds : SUBSET {GuildId}]

\* Mutant of pre_channel_checks: the ignored-member check is left out.
pre_channel_checks_without_member_check(m) ==
  IF ~m.is_message THEN "NotAMessage"
  ELSE IF m.guild_id = None THEN "NotInGuild"
  ELSE IF m.author_id = BotId THEN "SelfAuthored"
  ELSE IF ~m.guild_cached THEN "AttributeError"
  ELSE IF ~m.member_cached THEN "UnresolvableMember"
  ELSE IF m.ignore_bots /\ m.is_bot THEN "IgnoredBot"
  ELSE "pass"

\* The checks made before the first await: the rejection or exception
\* raised, or "pass".
pre_channel_checks(m) ==
  IF ~m.is_message THEN "NotAMessage"
  ELSE IF m.guild_id = None THEN "NotInGuild"
  ELSE IF m.author_id = BotId THEN "SelfAuthored"
  ELSE IF ~m.guild_cached THEN "AttributeError"   \* guild is None: guild.get_member
  ELSE IF ~m.member_cached THEN "UnresolvableMember"
  ELSE IF m.ignore_bots /\ m.is_bot THEN "IgnoredBot"
  ELSE IF m.author_id \in m.ignored_members THEN "IgnoredMember"
  ELSE "pass"

\* message.channel_id in ignored_channels or channel.name in ignored_channels
channel_ignored(m) ==
  MessageChannel \in m.ignored_channels \/ ChannelName \in m.ignored_channels

\* user_roles = list(member.role_ids) + [role.name for role in roles]: some
\* item of it is in ignored_roles.
role_ignored(m) ==
  \E item \in MemberRoleIds \cup MemberRoleNames : item \in m.ignored_roles

CheckEnd(r) ==
  /\ cresult' = r
  /\ cpc' = "done"

\* The call of check_message_can_be_propagated.
CheckCall ==
  /\ cpc = "idle"
  /\ msg' \in {m \in Inbound :
                 /\ (m.member_cached => m.guild_cached)
                 /\ (m.author_id = BotId => m.is_bot)}
  /\ cpc' = "pre_channel"
  /\ UNCHANGED <<cresult, roles_out, has_perms, my_roles, my_perms, pvars, svars, kvars, rvars, tvars>>

\* The type check, direct messages, the bot's own messages, the member
\* lookup, ignored bots and ignored members.
PreChannelChecks ==
  /\ cpc = "pre_channel"
  /\ IF pre_channel_checks(msg) = "pass"
     THEN cpc' = "channel" /\ UNCHANGED cresult
     ELSE CheckEnd(pre_channel_checks(msg))
  /\ UNCHANGED <<msg, roles_out, has_perms, my_roles, my_perms, pvars, svars, kvars, rvars, tvars>>

\* channel = await message.fetch_channel() and the ignored-channel check.
ChannelCheck ==
  /\ cpc = "channel"
  /\ \E out \in Outcomes :
       IF out # "ok" THEN CheckEnd(out)
       ELSE IF channel_ignored(msg) THEN CheckEnd("IgnoredChannel")
       ELSE cpc' = "roles" /\ UNCHANGED cresult
  /\ UNCHANGED <<msg, roles_out, has_perms, my_roles, my_perms, pvars, svars, kvars, rvars, tvars>>

\* roles = await member.fetch_roles() and the ignored-role check, inside
\* try / except AttributeError; then the ignored-guild check.
RoleAndGuildCheck ==
  /\ cpc = "roles"
  /\ \E out \in Outcomes \cup {"AttributeError"} :
       /\ roles_out' = out
       /\ IF out \notin {"ok", "AttributeError"} THEN CheckEnd(out)
          ELSE IF out = "ok" /\ role_ignored(msg) THEN CheckEnd("IgnoredRole")
          ELSE IF msg.guild_id \in msg.ignored_guilds THEN CheckEnd("IgnoredGuild")
          ELSE cpc' = "perms" /\ UNCHANGED cresult
  /\ UNCHANGED <<msg, has_perms, my_roles, my_perms, pvars, svars, kvars, rvars, tvars>>

\* Mutant of has_perms_to_make_guild: one of the two capabilities is enough.
has_perms_with_either(perms) ==
  "KICK_MEMBERS" \in perms \/ "BAN_MEMBERS" \in perms

\* has_perms = perms.KICK_MEMBERS and perms.BAN_MEMBERS
has_perms_to_make_guild(perms) ==
  "KICK_MEMBERS" \in perms /\ "BAN_MEMBERS" \in perms

\* perms = await self._get_perms(guild.get_my_member()); the PropagateData.
\* The bot's own member may be missing from the cache (get_my_member() is None).
PermsAndReturn ==
  /\ cpc = "perms"
  /\ \/ CheckEnd("AttributeError") /\ UNCHANGED <<has_perms, my_roles, my_perms>>
     \/ \E out \in Errors : CheckEnd(out) /\ UNCHANGED <<has_perms, my_roles, my_perms>>
     \/ \E r \in SUBSET Roles :
          /\ my_roles' = r
          /\ my_perms' = get_perms(r)
          /\ has_perms' = has_perms_to_make_guild(get_perms(r))
          /\ CheckEnd("PropagateData")
  /\ UNCHANGED <<msg, roles_out, pvars, svars, kvars, rvars, tvars>>

NextProp ==
  \/ CheckCall
  \/ PreChannelChecks
  \/ ChannelCheck
  \/ RoleAndGuildCheck
  \/ PermsAndReturn

SpecProp == Init /\ [][NextProp]_vars

\* ==================================================== claims (SpecProp)
CheckOrder ==
  <<"NotInGuild", "SelfAuthored", "UnresolvableMember", "IgnoredBot",
    "IgnoredMember", "IgnoredChannel", "IgnoredRole", "IgnoredGuild">>

\* Whether the named check fails for the message of the call.
Fails(c) ==
  CASE c = "NotInGuild" -> msg.guild_id = None
    [] c = "SelfAuthored" -> msg.author_id = BotId
    [] c = "UnresolvableMember" -> ~msg.member_cached
    [] c = "IgnoredBot" -> msg.ignore_bots /\ msg.is_bot
    [] c = "IgnoredMember" -> msg.author_id \in msg.ignored_members
    [] c = "IgnoredChannel" ->
         msg.ignored_channels \cap {MessageChannel, ChannelName} # {}
    [] c = "IgnoredRole" ->
         /\ roles_out = "ok"
         /\ msg.ignored_roles \cap (MemberRoleIds \cup MemberRoleNames) # {}
    [] c = "IgnoredGuild" -> msg.guild_id \in msg.ignored_guilds

FirstFailing ==
  LET failing == {i \in DOMAIN CheckOrder : Fails(CheckOrder[i])}
  IN  IF failing = {} THEN "PropagateData"
      ELSE CheckOrder[CHOOSE i \in failing : \A j \in failing : i <= j]

\* C6: a call of check_message_can_be_propagated on a message that ends with
\* a rejection or with PropagateData reports the first failing check of the
\* order direct message, self-authored, unresolvable member, ignored bot,
\* ignored member, ignored channel, ignored role, ignored guild; for an
\* ignored author in an ignored channel the rejection is never the channel
\* one, and it is the member one when no earlier check fails.
C6_FirstFailingCheck ==
  (cpc = "done" /\ msg.is_message /\ cresult \in Rejections \cup {"PropagateData"}) =>
     /\ cresult = FirstFailing
     /\ (Fails("IgnoredMember") /\ Fails("IgnoredChannel")) =>
          /\ cresult \notin {"IgnoredChannel", "IgnoredRole", "IgnoredGuild", "PropagateData"}
          /\ (\A i \in 1..4 : ~Fails(CheckOrder[i])) => cresult = "IgnoredMember"

\* C6 witness: an ignored author in a channel ignored by id and by name, of an
\* ignored guild, rejected as an ignored member.
C6_Witness ==
  /\ cpc = "done"
  /\ msg.is_message
  /\ msg.author_id \in msg.ignored_members
  /\ msg.ignored_channels = {MessageChannel, ChannelName}
  /\ msg.guild_id \in msg.ignored_guilds
  /\ cresult = "IgnoredMember"

\* C7 (as claimed): every call of check_message_can_be_propagated ends with
\* PropagateData or with a typed rejection, never with another exception.
C7_OnlyTypedRejections ==
  cpc = "done" => cresult \in Rejections \cup {"PropagateData"}

\* C14: when PropagateData is returned, the effective permissions are exactly
\* the permissions some role of the bot grants (none when it has no role),
\* and has_perms_to_make_guild is true iff some role grants the kick
\* capability and some role grants the ban capability.
C14_PermsAreUnionOfRoles ==
  cresult = "PropagateData" =>
    /\ \A p \in {"KICK_MEMBERS", "BAN_MEMBERS"} :
         p \in my_perms <=> \E r \in my_roles : p \in role_permissions(r)
    /\ \A p \in my_perms : \E r \in my_roles : p \in role_permissions(r)
    /\ my_roles = {} => my_perms = {}
    /\ has_perms <=> /\ \E r \in my_roles : "KICK_MEMBERS" \in role_permissions(r)
                     /\ \E r \in my_roles : "BAN_MEMBERS" \in role_permissions(r)

\* C14 witness: the bot holds one role only, which grants the kick capability
\* alone, and the returned flag is false.
C14_Witness ==
  /\ cresult = "PropagateData"
  /\ my_roles = {"kicker"}
  /\ my_perms = {"KICK_MEMBERS"}
  /\ ~has_perms

\* ------------------------------------------------ delete_member_messages
SweepChannels == {"c1", "c2"}

\* What the platform holds for a flagged message: "live" (it exists and can
\* be deleted), "gone" (fetch_message is a NotFoundError), "forbidden" (its
\* delete is a ForbiddenError), "vanished" (fetched, but gone by the time of
\* the delete: a NotFoundError).
PlatformStates == {"live", "gone", "forbidden", "vanished"}

FlaggedMessages == [channel_id : SweepChannels, is_duplicate : BOOLEAN]

\* Mutant of DeleteCaught: ForbiddenError is missing from the except clause.
DeleteCaught_without_Forbidden == {"NotFoundError"}

\* The failures the except clause of delete_message catches.
DeleteCaught == {"NotFoundError", "ForbiddenError"}

\* The failures the except clause of the sweep's loop body catches.
SweepCaught == {"NotFoundError"}

\* Outcome of channel.fetch_message on a message in platform state st, with
\* the transient failure inj ("ok" for none).
fetch_message_outcome(st, inj) ==
  IF inj # "ok" THEN inj
  ELSE IF st = "gone" THEN "NotFoundError"
  ELSE "ok"

\* Outcome of message.delete() on a fetched message.
delete_outcome(st, inj) ==
  IF inj # "ok" THEN inj
  ELSE IF st = "forbidden" THEN "ForbiddenError"
  ELSE IF st = "vanished" THEN "NotFoundError"
  ELSE "ok"

\* delete_message: what it raises to its caller ("ok" when the delete worked
\* or its failure was caught and logged).
delete_message(out) == IF out \in DeleteCaught THEN "ok" ELSE out

\* The transient failures the environment may inject into one iteration: at
\* most one, and only into a call the iteration makes.
Injections(need_fetch) ==
  {j \in [ch : Outcomes, fetch : Outcomes \ {"NotFoundError"},
          del : Outcomes \ {"NotFoundError", "ForbiddenError"}] :
     /\ (~need_fetch => j.ch = "ok")
     /\ (j.ch # "ok" => j.fetch = "ok" /\ j.del = "ok")
     /\ (j.fetch # "ok" => j.del = "ok")}

\* The call of delete_member_messages: member.messages and what the platform
\* holds for each flagged message.
SweepCall ==
  /\ spc = "idle"
  /\ \E n \in 1..MaxMsgs :
       /\ messages' \in [1..n -> FlaggedMessages]
       /\ platform' \in [1..n -> PlatformStates]
       /\ \A i \in 1..n : ~messages'[i].is_duplicate => platform'[i] = "live"
  /\ spc' = "loop"
  /\ idx' = 1
  /\ channels' = {}
  /\ UNCHANGED <<deleted, sresult, calls, other_failure, missing, pvars, cvars, kvars, rvars, tvars>>

SweepRaise(e) ==
  /\ sresult' = e
  /\ spc' = "done"
  /\ UNCHANGED idx

\* Mutant of needs_channel_fetch: the channel is fetched for every duplicate.
needs_channel_fetch_always(channel_id, cached) == TRUE

\* if message.channel_id not in channels
needs_channel_fetch(channel_id, cached) == channel_id \notin cached

\* One iteration of `for message in member.messages`.
SweepStep ==
  /\ spc = "loop"
  /\ idx <= Len(messages)
  /\ LET m == messages[idx]
         need_fetch == needs_channel_fetch(m.channel_id, channels)
     IN  IF ~m.is_duplicate
         THEN /\ idx' = idx + 1
              /\ UNCHANGED <<spc, channels, deleted, sresult, calls, other_failure,
                             missing>>
         ELSE \E j \in Injections(need_fetch) :
                LET fo == fetch_message_outcome(platform[idx], j.fetch)
                    do == delete_message(delete_outcome(platform[idx], j.del))
                    c1 == IF need_fetch
                          THEN Append(calls, [op |-> "fetch_channel", on |-> m.channel_id])
                          ELSE calls
                    c2 == Append(c1, [op |-> "fetch_message", on |-> idx])
                    c3 == Append(c2, [op |-> "delete", on |-> idx])
                IN  /\ other_failure' =
                         (other_failure \/ j.ch # "ok" \/ j.fetch # "ok" \/ j.del # "ok")
                    /\ missing' = IF j.ch = "NotFoundError"
                                  THEN missing \cup {m.channel_id} ELSE missing
                    /\ IF j.ch # "ok"
                       THEN \* fetch_channel is outside the try
                            /\ SweepRaise(j.ch)
                            /\ calls' = c1
                            /\ UNCHANGED <<channels, deleted>>
                       ELSE /\ channels' = channels \cup {m.channel_id}
                            /\ IF fo # "ok"
                               THEN /\ calls' = c2
                                    /\ UNCHANGED deleted
                                    /\ IF fo \in SweepCaught
                                       THEN idx' = idx + 1 /\ UNCHANGED <<spc, sresult>>
                                       ELSE SweepRaise(fo)
                               ELSE /\ calls' = c3
                                    /\ deleted' =
                                         IF delete_outcome(platform[idx], j.del) = "ok"
                                         THEN deleted \cup {idx} ELSE deleted
                                    /\ IF do = "ok" \/ do \in SweepCaught
                                       THEN idx' = idx + 1 /\ UNCHANGED <<spc, sresult>>
                                       ELSE SweepRaise(do)
  /\ UNCHANGED <<messages, platform, pvars, cvars, kvars, rvars, tvars>>

\* The loop is exhausted: delete_member_messages returns.
SweepReturn ==
  /\ spc = "loop"
  /\ idx > Len(messages)
  /\ sresult' = "returned"
  /\ spc' = "done"
  /\ UNCHANGED <<messages, platform, idx, channels, deleted, calls, other_failure,
                 missing, pvars, cvars, kvars, rvars, tvars>>

NextSweep ==
  \/ SweepCall
  \/ SweepStep
  \/ SweepReturn

SpecSweep == Init /\ [][NextSweep]_vars

\* =================================================== claims (SpecSweep)
\* C10: in a sweep whose only failures are flagged duplicates that are gone
\* from the platform and deletes refused as forbidden or not found, nothing is
\* raised, every flagged duplicate is attempted, and every duplicate that
\* exists and can be deleted has been deleted when the sweep ends (and nothing
\* else has).
C10_SweepSkipsAndContinues ==
  (spc = "done" /\ ~other_failure) =>
     /\ sresult = "returned"
     /\ \A i \in DOMAIN messages :
          messages[i].is_duplicate =>
            \E k \in DOMAIN calls : calls[k] = [op |-> "fetch_message", on |-> i]
     /\ deleted =
          {i \in DOMAIN messages : messages[i].is_duplicate /\ platform[i] = "live"}

\* C10 witness: three flagged duplicates, the first one's delete is refused,
\* the second is gone from the platform, the third is deleted.
C10_Witness ==
  /\ spc = "done"
  /\ ~other_failure
  /\ Len(messages) = 3
  /\ \A i \in 1..3 : messages[i].is_duplicate
  /\ platform = <<"forbidden", "gone", "live">>
  /\ deleted = {3}
  /\ sresult = "returned"

\* C19: in one sweep no channel id is fetched twice, the fetch of a channel
\* comes before every message fetch in that channel, and only flagged
\* messages marked as duplicates cause a channel fetch, a message fetch or a
\* deletion.
C19_ChannelFetchedOnce ==
  /\ \A k1, k2 \in DOMAIN calls :
       (calls[k1].op = "fetch_channel" /\ calls[k2] = calls[k1]) => k1 = k2
  /\ \A k \in DOMAIN calls :
       IF calls[k].op = "fetch_channel"
       THEN \E i \in 1..idx : /\ i \in DOMAIN messages
                              /\ messages[i].is_duplicate
                              /\ messages[i].channel_id = calls[k].on
       ELSE /\ messages[calls[k].on].is_duplicate
            /\ \E f \in 1..(k - 1) :
                 calls[f] = [op |-> "fetch_channel",
                             on |-> messages[calls[k].on].channel_id]
  /\ \A i \in deleted : messages[i].is_duplicate

\* C19 witness: two duplicates of one channel around a flagged message of the
\* other channel that is no duplicate: one channel fetch, two message fetches.
C19_Witness ==
  /\ spc = "done"
  /\ sresult = "returned"
  /\ Len(messages) = 3
  /\ messages[1] = [channel_id |-> "c1", is_duplicate |-> TRUE]
  /\ messages[2] = [channel_id |-> "c2", is_duplicate |-> FALSE]
  /\ messages[3] = [channel_id |-> "c1", is_duplicate |-> TRUE]
  /\ calls = <<[op |-> "fetch_channel", on |-> "c1"],
               [op |-> "fetch_message", on |-> 1], [op |-> "delete", on |-> 1],
               [op |-> "fetch_message", on |-> 3], [op |-> "delete", on |-> 3]>>

\* C20: a channel fetch that fails with NotFoundError does not end the sweep
\* with that exception, and the flagged duplicates of the other channels are
\* still attempted.
C20_SweepToleratesMissingChannel ==
  (spc = "done" /\ missing # {}) =>
     /\ sresult # "NotFoundError"
     /\ \A i \in DOMAIN messages :
          (messages[i].is_duplicate /\ messages[i].channel_id \notin missing) =>
             \E k \in DOMAIN calls : calls[k] = [op |-> "fetch_message", on |-> i]

\* ------------------------- two concurrent calls of punish_member
\* The record a call works on: the object the cache holds, or its own copy.
LocalRecord(i) == IF kaliased THEN kcache ELSE krec[i]

\* member._in_guild = True; member.kick_count -= 1 on the record of call i.
Reverting(i) ==
  /\ kreverted' = [kreverted EXCEPT ![i] = TRUE]
  /\ IF kaliased
     THEN kcache' = revert(kcache) /\ UNCHANGED krec
     ELSE krec' = [krec EXCEPT ![i] = revert(@)] /\ UNCHANGED kcache

KGoto(i, to) == kpc' = [kpc EXCEPT ![i] = to]

\* Two punishments of the same member are started: the inputs of both.
ConcCall ==
  /\ ~krun
  /\ krun' = TRUE
  /\ kaliased' \in BOOLEAN
  /\ kis_kick' \in [Attempts -> BOOLEAN]
  /\ kroles' \in SUBSET Roles
  /\ kowner' \in {MemberId, OtherId}
  /\ UNCHANGED <<kpc, krec, kcache, kbase, kreverted, kwritten, pvars, cvars, svars, rvars, tvars>>

\* Call i is given the member record obtained from the cache.
GetMember(i) ==
  /\ krun
  /\ kpc[i] = "idle"
  /\ krec' = [krec EXCEPT ![i] = kcache]
  /\ KGoto(i, "authorize")
  /\ UNCHANGED <<krun, kaliased, kis_kick, kroles, kowner, kcache, kbase, kreverted,
                 kwritten, pvars, cvars, svars, rvars, tvars>>

\* fetch_channel, _get_perms and the authorization chain: a denial reverts
\* the record and raises.
ConcAuthorize(i) ==
  /\ kpc[i] = "authorize"
  /\ \E out \in Outcomes :
       IF out # "ok"
       THEN KGoto(i, "done") /\ UNCHANGED <<krec, kcache, kreverted>>
       ELSE IF authorize(get_perms(kroles), kis_kick[i], kowner, MemberId) # "ok"
            THEN KGoto(i, "done") /\ Reverting(i)
            ELSE KGoto(i, "notify") /\ UNCHANGED <<krec, kcache, kreverted>>
  /\ UNCHANGED <<krun, kaliased, kis_kick, kroles, kowner, kbase, kwritten,
                 pvars, cvars, svars, rvars, tvars>>

\* author.send: only a caught failure lets the call go on.
ConcNotify(i) ==
  /\ kpc[i] = "notify"
  /\ \E out \in Outcomes :
       IF out = "ok" \/ out \in PunishCaught
       THEN KGoto(i, "act")
       ELSE KGoto(i, "done")
  /\ UNCHANGED <<krun, kaliased, kis_kick, kroles, kowner, krec, kcache, kbase,
                 kreverted, kwritten, pvars, cvars, svars, rvars, tvars>>

\* guild.kick / guild.ban: a caught failure reverts the record.
ConcAct(i) ==
  /\ kpc[i] = "act"
  /\ \E out \in Outcomes :
       IF out = "ok"
       THEN KGoto(i, "set_member") /\ UNCHANGED <<krec, kcache, kreverted>>
       ELSE IF out \in PunishCaught
            THEN KGoto(i, "retract") /\ Reverting(i)
            ELSE KGoto(i, "done") /\ UNCHANGED <<krec, kcache, kreverted>>
  /\ UNCHANGED <<krun, kaliased, kis_kick, kroles, kowner, kbase, kwritten,
                 pvars, cvars, svars, rvars, tvars>>

\* The logs of the failure and sent_message.delete(), which may raise.
ConcRetract(i) ==
  /\ kpc[i] = "retract"
  /\ \E out \in Outcomes :
       IF out = "ok" THEN KGoto(i, "set_member") ELSE KGoto(i, "done")
  /\ UNCHANGED <<krun, kaliased, kis_kick, kroles, kowner, krec, kcache, kbase,
                 kreverted, kwritten, pvars, cvars, svars, rvars, tvars>>

\* await self.handler.cache.set_member(member)
ConcSetMember(i) ==
  /\ kpc[i] = "set_member"
  /\ kcache' = [LocalRecord(i) EXCEPT !.in_guild = TRUE]
  /\ kwritten' = [kwritten EXCEPT ![i] = TRUE]
  /\ KGoto(i, "done")
  /\ UNCHANGED <<krun, kaliased, kis_kick, kroles, kowner, krec, kbase, kreverted,
                 pvars, cvars, svars, rvars, tvars>>

NextConc ==
  \/ ConcCall
  \/ \E i \in Attempts : GetMember(i)
  \/ \E i \in Attempts : ConcAuthorize(i)
  \/ \E i \in Attempts : ConcNotify(i)
  \/ \E i \in Attempts : ConcAct(i)
  \/ \E i \in Attempts : ConcRetract(i)
  \/ \E i \in Attempts : ConcSetMember(i)

SpecConc == Init /\ [][NextConc]_vars

\* ==================================================== claims (SpecConc)
\* C18: when both calls have ended and both have reverted, the record the
\* cache holds has kick_count two below the value before the two calls.
C18_NoLostCompensation ==
  (\A i \in Attempts : kpc[i] = "done" /\ kreverted[i]) =>
     kcache.kick_count = kbase.kick_count - 2

\* ------------------------------------ transform_message / dict_to_embed
\* A template text is a sequence of words; a word is plain text or a token.
Words == {"hi", "$USERNAME", "$KICKCOUNT", "$NOPE"}
Texts == UNION {[1..n -> Words] : n \in 1..MaxWords}

\* The values an icon_url of a template may have.
IconUrls == {<<"$USERAVATAR">>, <<"http://example/icon.png">>}

\* The authors and counters a render is made for.
Usernames == {"alice", "bob"}
Contexts == [username : Usernames, warn_count : {"1"}, kick_count : {"1", "2"}]

avatar_url(username) ==
  IF username = "alice" THEN "http://cdn/alice.png" ELSE "http://cdn/bob.png"

\* Template(message).safe_substitute({...}) on one word: an unknown token is
\* left as it is.
safe_substitute(w, c) ==
  CASE w = "$USERNAME" -> c.username
    [] w = "$WARNCOUNT" -> c.warn_count
    [] w = "$KICKCOUNT" -> c.kick_count
    [] w = "$USERAVATAR" -> avatar_url(c.username)
    [] w = "$BOTAVATAR" -> "http://cdn/bot.png"
    [] w = "$GUILDICON" -> "http://cdn/guild.png"
    [] OTHER -> w

substitute_args(message, c) ==
  [i \in DOMAIN message |-> safe_substitute(message[i], c)]

allowed_avatars == {<<"$USERAVATAR">>, <<"$BOTAVATAR">>, <<"$GUILDICON">>}

\* The configured templates: a plain string, a dict, or a string that begins
\* with "{" and holds the literal of a dict. The dicts carry a title and a
\* footer icon_url.
Templates ==
  [kind : {"str"}, text : Texts]
    \cup [kind : {"dict"}, title : Texts, icon_url : IconUrls, type : {None}]
    \cup [kind : {"literal"}, title : Texts, icon_url : IconUrls]

\* dict_to_embed assigns into data: the value of data when it returns, which
\* is also what deserialize_embed(data) is built from.
dict_to_embed(data, c) ==
  [data EXCEPT !.title = substitute_args(@, c),
               !.icon_url = IF @ \in allowed_avatars THEN substitute_args(@, c) ELSE @,
               !.type = "rich"]

\* transform_message: what it returns and the value of item afterwards.
transform_message(it, c) ==
  CASE it.kind = "str" ->
         [result |-> [kind |-> "str", text |-> substitute_args(it.text, c)], item |-> it]
    [] it.kind = "literal" ->
         [result |-> [kind |-> "literal", title |-> substitute_args(it.title, c),
                      icon_url |-> substitute_args(it.icon_url, c)],
          item |-> it]
    [] it.kind = "dict" ->
         [result |-> dict_to_embed(it, c), item |-> dict_to_embed(it, c)]

\* ast.literal_eval(content): a new dict at every call.
literal_eval(it) ==
  [kind |-> "dict", title |-> it.title, icon_url |-> it.icon_url, type |-> None]

\* visualizer: what it returns and the value of content's object afterwards.
visualizer(it, c) ==
  IF it.kind = "literal"
  THEN [result |-> transform_message(literal_eval(it), c).result, item |-> it]
  ELSE transform_message(it, c)

\* The entry points a configured template of this kind is rendered through.
EntryPoints(kind) ==
  IF kind = "dict" THEN {"transform_message"}
  ELSE {"transform_message", "visualizer"}

render(via, it, c) ==
  IF via = "visualizer" THEN visualizer(it, c) ELSE transform_message(it, c)

\* Configuration loading supplies the template.
LoadTemplate ==
  /\ configured.kind = "none"
  /\ \E t \in Templates : configured' = t /\ template' = t
  /\ UNCHANGED <<renders, ctx, rendered, pvars, cvars, svars, kvars, tvars>>

\* One render of the configured template, as punish_member does for the
\* failed kick/ban message, for some message and counters.
Render ==
  /\ template.kind # "none"
  /\ renders < MaxRenders
  /\ \E c \in Contexts, via \in EntryPoints(template.kind) :
       /\ ctx' = [username |-> c.username, warn_count |-> c.warn_count,
                  kick_count |-> c.kick_count, via |-> via]
       /\ rendered' = render(via, template, c).result
       /\ template' = render(via, template, c).item
  /\ renders' = renders + 1
  /\ UNCHANGED <<configured, pvars, cvars, svars, kvars, tvars>>

NextRender ==
  \/ LoadTemplate
  \/ Render

SpecRender == Init /\ [][NextRender]_vars

\* =================================================== claims (SpecRender)
\* C21: after any sequence of renders the configured template is as
\* configuration loading supplied it, and the last render returned the
\* supplied template with the values of its own message and counters.
C21_TemplateNotMutated ==
  renders > 0 =>
    /\ template = configured
    /\ rendered = render(ctx.via, configured, ctx).result

\* ------------------------------------------------------ create_message
\* A text is a sequence of characters. The zero-width characters are written
\* by their code point; every other character stands for itself.
ZeroWidth == {"U+200B", "U+200C", "U+200D", "U+200E", "U+200F", "U+FEFF"}

\* The pieces the texts of the model are concatenated from: a letter, a
\* space, zero-width characters, and the five-letter texts u200B and uFEFF
\* whole and in part.
Chunks ==
  {<<"a">>, <<" ">>, <<"U+200B">>, <<"U+200D">>, <<"U+FEFF">>,
   <<"u", "2", "0", "0", "B">>, <<"u", "F", "E", "F", "F">>, <<"u", "2">>}

RECURSIVE Concat(_)
Concat(pieces) ==
  IF pieces = << >> THEN << >> ELSE Head(pieces) \o Concat(Tail(pieces))

ContentTexts == {Concat(ps) : ps \in UNION {[1..n -> Chunks] : n \in 0..MaxChunks}}

\* str.replace(old, ""): every occurrence of old, left to right, is removed.
RECURSIVE replace(_, _)
replace(str, old) ==
  IF Len(str) < Len(old) THEN str
  ELSE IF SubSeq(str, 1, Len(old)) = old
       THEN replace(SubSeq(str, Len(old) + 1, Len(str)), old)
       ELSE <<Head(str)>> \o replace(Tail(str), old)

\* The chain of replace calls of create_message, in its order.
delete_chars(str) ==
  replace(replace(replace(replace(replace(replace(str,
    <<"u", "2", "0", "0", "B">>),
    <<"u", "2", "0", "0", "C">>),
    <<"u", "2", "0", "0", "D">>),
    <<"u", "2", "0", "0", "E">>),
    <<"u", "2", "0", "0", "F">>),
    <<"u", "F", "E", "F", "F">>)

\* bool(message.content and message.content.strip())
has_text(str) == \E i \in DOMAIN str : str[i] # " "

\* create_message: LogicError, or the content of the Message it returns.
create_message(message_content, message_embeds, option) ==
  IF ~has_text(message_content) /\ message_embeds = << >>
  THEN [raised |-> TRUE, content |-> << >>]
  ELSE LET text == IF has_text(message_content) THEN message_content
                   ELSE message_embeds[1]
       IN  [raised |-> FALSE,
            content |-> IF option THEN delete_chars(text) ELSE text]

\* The call of create_message: the message and the option.
CreateCall ==
  /\ tpc = "idle"
  /\ content' \in ContentTexts
  /\ embeds' \in {<< >>} \cup {<<c>> : c \in Chunks}
  /\ delete_zero_width_chars' \in BOOLEAN
  /\ tpc' = "called"
  /\ UNCHANGED <<created, pvars, cvars, svars, kvars, rvars>>

CreateMessage ==
  /\ tpc = "called"
  /\ created' = create_message(content, embeds, delete_zero_width_chars)
  /\ tpc' = "done"
  /\ UNCHANGED <<content, embeds, delete_zero_width_chars, pvars, cvars, svars,
                 kvars, rvars>>

NextText ==
  \/ CreateCall
  \/ CreateMessage

SpecText == Init /\ [][NextText]_vars

\* ===================================================== claims (SpecText)
\* The text create_message starts from: the content of the message, or the
\* text of its first embed when the content is blank.
SourceText == IF has_text(content) THEN content ELSE embeds[1]

NotZeroWidth(ch) == ch \notin ZeroWidth

\* C22: the content of a returned Message is the source text without its
\* zero-width characters, every other character kept in order, when
\* delete_zero_width_chars is set, and the source text unchanged otherwise.
C22_ZeroWidthStripped ==
  (tpc = "done" /\ ~created.raised) =>
     IF delete_zero_width_chars
     THEN /\ \A i \in DOMAIN created.content : created.content[i] \notin ZeroWidth
          /\ created.content = SelectSeq(SourceText, NotZeroWidth)
     ELSE created.content = SourceText

====
